---- MODULE Spec2Model ----
(***************************************************************************)
(* Model of UNO-SOFT/mcdb (src/mcdb.go, the current snapshot, lines        *)
(* 340-810): a sharding layer over constant databases.  Keys, values and   *)
(* file names are sequences of bytes.  A 32-bit hash is kept as a pair of  *)
(* 16-bit halves <<hi, lo>> so that every intermediate product fits the    *)
(* model checker's integers.                                               *)
(***************************************************************************)
EXTENDS Integers, Sequences, FiniteSets, TLC

----------------------------------------------------------------------------
(* Routing hash: hash/fnv New32 (FNV-1: multiply, then xor), mod 2^32.     *)

Half == 65536

\* FNV-1 32-bit offset basis 0x811C9DC5 and prime 0x01000193, in halves.
FnvOffsetHi == 33052
FnvOffsetLo == 40389
FnvPrimeHi == 256
FnvPrimeLo == 403

RECURSIVE Pow2(_)
Pow2(e) == IF e = 0 THEN 1 ELSE 2 * Pow2(e - 1)

RECURSIVE XorBits(_, _, _)
XorBits(a, b, bits) ==
    IF bits = 0 THEN 0
    ELSE (((a % 2) + (b % 2)) % 2) + 2 * XorBits(a \div 2, b \div 2, bits - 1)

\* One round of FNV-1 on h = <<hi, lo>> with byte c: h = (h * prime) % 2^32; h ^= c.
FnvStep(h, c) ==
    LET lowProd == h[2] * FnvPrimeLo
        lo      == lowProd % Half
        hi      == (h[1] * FnvPrimeLo + h[2] * FnvPrimeHi + (lowProd \div Half)) % Half
    IN  <<hi, (lo \div 256) * 256 + XorBits(lo % 256, c, 8)>>

RECURSIVE FnvFold(_, _, _)
FnvFold(h, p, i) == IF i > Len(p) THEN h ELSE FnvFold(FnvStep(h, p[i]), p, i + 1)

fnvHash(p) == FnvFold(<<FnvOffsetHi, FnvOffsetLo>>, p, 1)

\* h >> s for a 32-bit h held as halves.
ShiftRight(h, s) ==
    IF s >= 32 THEN 0
    ELSE IF s >= 16 THEN h[1] \div Pow2(s - 16)
    ELSE h[1] * Pow2(16 - s) + (h[2] \div Pow2(s))

\* The hash functions a Writer or Reader can hold in bucketHash.
ApplyHash(hname, key) == CASE hname = "fnvHash" -> fnvHash(key)

\* bucket with the bit a doubling adds as the high bit of the index instead of
\* the low one: the high 32-expC bits of the hash in reverse order.
RECURSIVE ReverseBits(_, _)
ReverseBits(v, bits) ==
    IF bits = 0 THEN 0 ELSE (v % 2) * Pow2(bits - 1) + ReverseBits(v \div 2, bits - 1)
bucketNewBitHigh(hname, key, expC) ==
    IF expC = 32 THEN 0
    ELSE ReverseBits(ShiftRight(ApplyHash(hname, key), expC), 32 - expC)

bucket(hname, key, expC) ==
    IF expC = 32 THEN 0 ELSE ShiftRight(ApplyHash(hname, key), expC)

----------------------------------------------------------------------------
(* Errors: a chain of messages, outermost first; <<>> is nil.              *)
(* fmt.Errorf("...: %w", err) puts a message in front of the chain, and    *)
(* errors.Is looks for a message anywhere in the chain.                    *)

NoErr == <<>>
ErrTooMuchData == <<"ErrTooMuchData">>
Wrap(msg, err) == <<msg>> \o err
ErrorsIs(err, target) == \E i \in 1..Len(err) : err[i] = target[1]
\* A run-time panic (index out of range) unwinds every caller unchanged.
Panic == <<"panic">>
IsPanic(err) == err = Panic

----------------------------------------------------------------------------
(* File names.                                                             *)

Prefix  == <<109, 99, 100, 98, 45>>          \* "mcdb-"
PrefixV == <<109, 99, 100, 98, 45, 118>>     \* "mcdb-v"
Suffix  == <<46, 99, 100, 98>>               \* ".cdb"
Dash    == <<45>>
Comma   == <<44>>

DefaultVersion == 1

HasPrefix(s, p) == Len(s) >= Len(p) /\ SubSeq(s, 1, Len(p)) = p
HasSuffix(s, p) == Len(s) >= Len(p) /\ SubSeq(s, Len(s) - Len(p) + 1, Len(s)) = p

RECURSIVE Decimal(_)
Decimal(n) == IF n < 10 THEN <<48 + n>> ELSE Decimal(n \div 10) \o <<48 + (n % 10)>>

RECURSIVE Binary(_)
Binary(n) == IF n < 2 THEN <<48 + n>> ELSE Binary(n \div 2) \o <<48 + (n % 2)>>

RECURSIVE ZeroPad(_, _)
ZeroPad(s, width) == IF Len(s) >= width THEN s ELSE ZeroPad(<<48>> \o s, width)

\* The shard file name with the index in decimal.
FormatFileNameDecimalIndex(version, n2, i, width) ==
    PrefixV \o Decimal(version) \o Dash \o Decimal(n2) \o Comma
            \o ZeroPad(Decimal(i), width) \o Suffix

\* fmt.Sprintf("mcdb-v%d-%d,%0<width>b.cdb", version, n2, i)
FormatFileName(version, n2, i, width) ==
    PrefixV \o Decimal(version) \o Dash \o Decimal(n2) \o Comma
            \o ZeroPad(Binary(i), width) \o Suffix

\* fmt.Sprintf("mcdb-%d,%b.cdb", n2, i): the legacy names.
FormatFileNameV0(n2, i, width) ==
    Prefix \o Decimal(n2) \o Comma \o ZeroPad(Binary(i), width) \o Suffix

\* A scan format: literal text and integer verbs (%d: base 10, %b: base 2).
Lit(bytes) == [kind |-> "lit", bytes |-> bytes, base |-> 0]
Verb(base) == [kind |-> "verb", bytes |-> <<>>, base |-> base]
FileName   == <<Lit(PrefixV), Verb(10), Lit(Dash), Verb(10), Lit(Comma), Verb(2), Lit(Suffix)>>
FileNameV0 == <<Lit(Prefix), Verb(10), Lit(Comma), Verb(2), Lit(Suffix)>>

IsSpace(c) == c = 32 \/ c = 9
IsDigit(c, base) == c >= 48 /\ c < 48 + base

RECURSIVE SkipSpace(_, _)
SkipSpace(s, pos) ==
    IF pos <= Len(s) /\ IsSpace(s[pos]) THEN SkipSpace(s, pos + 1) ELSE pos

RECURSIVE DigitsEnd(_, _, _)
DigitsEnd(s, pos, base) ==
    IF pos <= Len(s) /\ IsDigit(s[pos], base) THEN DigitsEnd(s, pos + 1, base) ELSE pos

RECURSIVE ParseUint(_, _, _, _, _)
ParseUint(s, pos, end, base, acc) ==
    IF pos >= end THEN acc ELSE ParseUint(s, pos + 1, end, base, acc * base + (s[pos] - 48))

\* The operand does not fit its type (uint8 for Version; the uint32 operands
\* of the model's names are always far below 2^31).
Overflows(v, bits) == bits <= 16 /\ v >= Pow2(bits)

\* fmt.Sscanf(s, format, operands...): bits[k] is the width of the k-th operand.
\* Input left over after the format is consumed is not an error.
RECURSIVE Sscanf(_, _, _, _, _, _)
Sscanf(s, pos, format, i, bits, vals) ==
    IF i > Len(format) THEN [ok |-> TRUE, vals |-> vals]
    ELSE IF format[i].kind = "lit"
    THEN LET l == format[i].bytes
         IN  IF Len(s) - pos + 1 >= Len(l) /\ SubSeq(s, pos, pos + Len(l) - 1) = l
             THEN Sscanf(s, pos + Len(l), format, i + 1, bits, vals)
             ELSE [ok |-> FALSE, vals |-> vals]
    ELSE LET from == SkipSpace(s, pos)
             to   == DigitsEnd(s, from, format[i].base)
             v    == ParseUint(s, from, to, format[i].base, 0)
         IN  IF to = from \/ Overflows(v, bits[Len(vals) + 1])
             THEN [ok |-> FALSE, vals |-> vals]
             ELSE Sscanf(s, to, format, i + 1, bits, Append(vals, v))

\* The name parsing of NewReader: [ok, v, u1, u2].
ParseFileName(nm) ==
    IF HasPrefix(nm, PrefixV)
    THEN LET r == Sscanf(nm, 1, FileName, 1, <<8, 32, 32>>, <<>>)
         IN  IF r.ok THEN [ok |-> TRUE, v |-> r.vals[1], u1 |-> r.vals[2], u2 |-> r.vals[3]]
             ELSE [ok |-> FALSE, v |-> 0, u1 |-> 0, u2 |-> 0]
    ELSE LET r == Sscanf(nm, 1, FileNameV0, 1, <<32, 32>>, <<>>)
         IN  IF r.ok THEN [ok |-> TRUE, v |-> 0, u1 |-> r.vals[1], u2 |-> r.vals[2]]
             ELSE [ok |-> FALSE, v |-> 0, u1 |-> 0, u2 |-> 0]

\* os.ReadDir returns the entries sorted by file name (byte order).
RECURSIVE LexLess(_, _, _)
LexLess(a, b, i) ==
    IF i > Len(a) THEN i <= Len(b)
    ELSE IF i > Len(b) THEN FALSE
    ELSE IF a[i] # b[i] THEN a[i] < b[i]
    ELSE LexLess(a, b, i + 1)

RECURSIVE SortNames(_)
SortNames(S) ==
    IF S = {} THEN <<>>
    ELSE LET m == CHOOSE a \in S : \A b \in S \ {a} : LexLess(a, b, 1)
         IN  <<m>> \o SortNames(S \ {m})

----------------------------------------------------------------------------
(* The single-shard engine (github.com/colinmarc/cdb), as the interface    *)
(* the sharding layer relies on: a build-handle accepts records until the  *)
(* shard is full, Close finalizes the file, and an opened shard answers    *)
(* point lookups and iterates its records in insertion order.              *)

\* The most data one shard holds (4 GiB in the engine).
ShardCap == 5

EntrySize(key, val) == Len(key) + Len(val)

RECURSIVE DataSize(_)
DataSize(recs) ==
    IF recs = <<>> THEN 0
    ELSE EntrySize(Head(recs)[1], Head(recs)[2]) + DataSize(Tail(recs))

\* cdb.NewWriter(fh, hash) on a file just created (and truncated) by os.Create.
\* errAt is the record a later read of the file fails at (0: every read works).
cdbNewWriter(hash) == [recs |-> <<>>, final |-> FALSE, hash |-> hash, errAt |-> 0]

\* cdb.Writer.Put through build-handle h.
cdbPut(fs, h, key, val) ==
    IF h.closed \/ h.fileName \notin DOMAIN fs
    THEN [fs |-> fs, err |-> <<"file already closed">>]
    ELSE IF DataSize(fs[h.fileName].recs) + EntrySize(key, val) > ShardCap
    THEN [fs |-> fs, err |-> ErrTooMuchData]
    ELSE [fs  |-> [fs EXCEPT ![h.fileName].recs = Append(@, <<key, val>>)],
          err |-> NoErr]

\* cdb.Writer.Close through build-handle h: writes the index, closes the file.
cdbClose(fs, h) ==
    IF h.closed \/ h.fileName \notin DOMAIN fs
    THEN [fs |-> fs, err |-> <<"file already closed">>]
    ELSE [fs |-> [fs EXCEPT ![h.fileName].final = TRUE], err |-> NoErr]

NilHandle == [open |-> FALSE, name |-> <<>>, recs |-> <<>>, hashOk |-> FALSE, errAt |-> 0]

\* cdb.New(fh, hash) on the mapped file: the index must be there, and lookups
\* work when the hash is the one the file was built with.
cdbNew(fs, name, hash) ==
    IF ~fs[name].final
    THEN [h |-> NilHandle, err |-> <<"cdb.New">>]
    ELSE [h   |-> [open |-> TRUE, name |-> name, recs |-> fs[name].recs,
                   hashOk |-> (hash = fs[name].hash), errAt |-> fs[name].errAt],
          err |-> NoErr]

\* cdb.Iterator.Next of a cursor that consumed pos records of h: the next
\* record, the end of the shard, or a read error the cursor keeps.
cdbIterNext(h, pos) ==
    IF pos >= Len(h.recs) THEN [ok |-> FALSE, pos |-> pos, err |-> NoErr]
    ELSE IF h.errAt = pos + 1 THEN [ok |-> FALSE, pos |-> pos, err |-> <<"read">>]
    ELSE [ok |-> TRUE, pos |-> pos + 1, err |-> NoErr]

RECURSIVE FirstMatch(_, _, _)
FirstMatch(recs, key, i) ==
    IF i > Len(recs) THEN 0
    ELSE IF recs[i][1] = key THEN i
    ELSE FirstMatch(recs, key, i + 1)

\* cdb.CDB.Get: the first record with the key, or nil.
cdbGet(h, key) ==
    LET i == IF h.hashOk THEN FirstMatch(h.recs, key, 1) ELSE 0
    IN  IF i = 0 THEN [found |-> FALSE, val |-> <<>>, err |-> NoErr]
        ELSE [found |-> TRUE, val |-> h.recs[i][2], err |-> NoErr]

----------------------------------------------------------------------------
(* Writer construction and Close.                                          *)

\* ExpCLoop doubling once more when n2 has reached n.
RECURSIVE ExpCLoopInclusive(_, _, _)
ExpCLoopInclusive(n2, n, expC) ==
    IF n2 <= n THEN ExpCLoopInclusive(2 * n2, n, expC - 1) ELSE <<n2, expC>>

\* for n2 = 1; n2 < n; n2 <<= 1 { expC-- }: <<n2, expC>>
RECURSIVE ExpCLoop(_, _, _)
ExpCLoop(n2, n, expC) == IF n2 < n THEN ExpCLoop(2 * n2, n, expC - 1) ELSE <<n2, expC>>

\* NewWriter growing only for n < 0, n = 0 being a fixed Writer of 2 shards.
NewWriterZeroFixed(fs, n) ==
    LET canGrow == n < 0
        n1      == IF n = 0 THEN 2 ELSE IF n < 0 THEN -n ELSE n
        loop    == ExpCLoop(1, n1, 32)
        n2      == loop[1]
        expC    == loop[2]
        name(i) == FormatFileName(DefaultVersion, n2, i, 32 - expC + 1)
        names   == {name(i) : i \in 0..(n2 - 1)}
    IN  [m   |-> [ws         |-> [i \in 1..n2 |-> [fileName |-> name(i - 1), closed |-> FALSE]],
                  bucketHash |-> "fnvHash",
                  expC       |-> expC,
                  canGrow    |-> canGrow],
         fs  |-> [nm \in DOMAIN fs \cup names |->
                     IF nm \in names THEN cdbNewWriter("nil") ELSE fs[nm]],
         err |-> NoErr]

\* NewWriter(dir, n) on the directory holding fs.
NewWriter(fs, n) ==
    LET canGrow == n <= 0
        n1      == IF n = 0 THEN 2 ELSE IF n < 0 THEN -n ELSE n
        loop    == ExpCLoop(1, n1, 32)
        n2      == loop[1]
        expC    == loop[2]
        name(i) == FormatFileName(DefaultVersion, n2, i, 32 - expC + 1)
        names   == {name(i) : i \in 0..(n2 - 1)}
    IN  [m   |-> [ws         |-> [i \in 1..n2 |-> [fileName |-> name(i - 1), closed |-> FALSE]],
                  bucketHash |-> "fnvHash",
                  expC       |-> expC,
                  canGrow    |-> canGrow],
         fs  |-> [nm \in DOMAIN fs \cup names |->
                     IF nm \in names THEN cdbNewWriter("nil") ELSE fs[nm]],
         err |-> NoErr]

\* The handles of ws, each closed; errors of the engine's Close are dropped.
RECURSIVE CloseEach(_, _, _)
CloseEach(fs, ws, i) ==
    IF i > Len(ws) THEN fs ELSE CloseEach(cdbClose(fs, ws[i]).fs, ws, i + 1)

\* Writer.Close without m.ws = nil.
WriterCloseKeepsHandles(m, fs) ==
    IF Len(m.ws) = 0 THEN [m |-> m, fs |-> fs, err |-> NoErr]
    ELSE [m |-> m, fs |-> CloseEach(fs, m.ws, 1), err |-> NoErr]

\* Writer.Close.
WriterClose(m, fs) ==
    IF Len(m.ws) = 0 THEN [m |-> m, fs |-> fs, err |-> NoErr]
    ELSE [m |-> [m EXCEPT !.ws = <<>>], fs |-> CloseEach(fs, m.ws, 1), err |-> NoErr]

\* cdb.Writer.Close through build-handle h failing: no index is written.
cdbCloseFail(fs, h) == [fs |-> fs, err |-> <<"cdb.Writer.Close">>]

\* The handles of ws, each closed, those of fails failing; the error of each
\* engine Close is dropped.
RECURSIVE CloseEachFaulty(_, _, _, _)
CloseEachFaulty(fs, ws, i, fails) ==
    IF i > Len(ws) THEN fs
    ELSE CloseEachFaulty(IF i \in fails THEN cdbCloseFail(fs, ws[i]).fs
                         ELSE cdbClose(fs, ws[i]).fs,
                         ws, i + 1, fails)

\* Writer.Close with the engine's Close of the handles of fails failing.
WriterCloseFaulty(m, fs, fails) ==
    IF Len(m.ws) = 0 THEN [m |-> m, fs |-> fs, err |-> NoErr]
    ELSE [m   |-> [m EXCEPT !.ws = <<>>],
          fs  |-> CloseEachFaulty(fs, m.ws, 1, fails),
          err |-> NoErr]

\* NewWriter whose os.Create (stage "create") or cdb.NewWriter (stage
\* "handle") fails at shard failAt without closing what it made so far.
NewWriterFailLeaks(fs, n, failAt, stage) ==
    LET all == NewWriter(fs, n)
        files == {all.m.ws[i].fileName :
                     i \in 1..(failAt + (IF stage = "handle" THEN 1 ELSE 0))}
    IN  IF failAt \notin 0..(Len(all.m.ws) - 1) THEN all
        ELSE [m   |-> [ws |-> <<>>, bucketHash |-> "unset", expC |-> 32, canGrow |-> FALSE],
              fs  |-> [nm \in DOMAIN fs \cup files |->
                          IF nm \in files THEN cdbNewWriter("nil") ELSE fs[nm]],
              err |-> IF stage = "handle" THEN <<"cdb.NewWriter">> ELSE <<"os.Create">>]

\* NewWriter whose os.Create (stage "create") or cdb.NewWriter (stage
\* "handle") fails at shard failAt, if it has that many shards: the shards
\* before it have their file and build-handle, shard failAt has its file when
\* only the build-handle failed; m.Close() closes the build-handles and nil is
\* returned.
NewWriterFail(fs, n, failAt, stage) ==
    LET all == NewWriter(fs, n)
        files == {all.m.ws[i].fileName :
                     i \in 1..(failAt + (IF stage = "handle" THEN 1 ELSE 0))}
        dir == [nm \in DOMAIN fs \cup files |->
                   IF nm \in files THEN cdbNewWriter("nil") ELSE fs[nm]]
        part == [all.m EXCEPT !.ws = SubSeq(all.m.ws, 1, failAt)]
    IN  IF failAt \notin 0..(Len(all.m.ws) - 1) THEN all
        ELSE [m   |-> [ws |-> <<>>, bucketHash |-> "unset", expC |-> 32, canGrow |-> FALSE],
              fs  |-> WriterClose(part, dir).fs,
              err |-> IF stage = "handle" THEN <<"cdb.NewWriter">> ELSE <<"os.Create">>]

----------------------------------------------------------------------------
(* Reader construction, Get and the merged Iterator.                       *)

NoReader == [rs |-> <<>>, rsNil |-> TRUE, expC |-> 32, version |-> 0,
             bucketHash |-> "unset", cdbHash |-> "unset"]

Matches(nm) == HasPrefix(nm, Prefix) /\ HasSuffix(nm, Suffix)

FirstNil(rs) == CHOOSE i \in 1..Len(rs) : ~rs[i].open /\ \A j \in 1..(i - 1) : rs[j].open

\* FirstEntry without the loop that lowers expC: every key routes to shard 0.
FirstEntryFlat(p) ==
    [rs         |-> [i \in 1..p.u1 |-> NilHandle],
     rsNil      |-> FALSE,
     expC       |-> 32,
     version    |-> p.v,
     bucketHash |-> "fnvHash",
     cdbHash    |-> IF p.v = 0 THEN "fnvHash" ELSE "nil"]

\* The Reader after the first matching file (parsed as p) fixed its shape.
FirstEntry(p) ==
    [rs         |-> [i \in 1..p.u1 |-> NilHandle],
     rsNil      |-> FALSE,
     expC       |-> ExpCLoop(1, p.u1, 32)[2],
     version    |-> p.v,
     bucketHash |-> "fnvHash",
     cdbHash    |-> IF p.v = 0 THEN "fnvHash" ELSE "nil"]

\* EntryError without the comparison of versions.
EntryErrorAnyVersion(m, first, p) ==
    IF ~p.ok THEN <<"scan">>
    ELSE IF first /\ p.v \notin {0, 1} THEN <<"Unknown version">>
    ELSE IF p.u1 # Len(m.rs)
    THEN <<"first number should be the same for all files">>
    ELSE IF p.u1 < p.u2
    THEN <<"second number should not be bigger than the second">>
    ELSE NoErr

\* The checks of one parsed file name p against the Reader m (first: m.rs was
\* nil before this file): the error NewReader returns, or nil.
EntryError(m, first, p) ==
    IF ~p.ok THEN <<"scan">>
    ELSE IF first /\ p.v \notin {0, 1} THEN <<"Unknown version">>
    ELSE IF ~first /\ m.version # p.v THEN <<"Version mismatch">>
    ELSE IF p.u1 # Len(m.rs)
    THEN <<"first number should be the same for all files">>
    ELSE IF p.u1 < p.u2
    THEN <<"second number should not be bigger than the second">>
    ELSE NoErr

\* ScanFinish without the search for a slot never filled.
ScanFinishNoGapCheck(m) ==
    IF Len(m.rs) = 0
    THEN [rdr |-> NoReader, err |-> <<"no files found">>, missing |-> -1]
    ELSE [rdr |-> m, err |-> NoErr, missing |-> -1]

\* After the scan: no file at all, or a slot never filled.
ScanFinish(m) ==
    IF Len(m.rs) = 0
    THEN [rdr |-> NoReader, err |-> <<"no files found">>, missing |-> -1]
    ELSE IF \E i \in 1..Len(m.rs) : ~m.rs[i].open
    THEN [rdr |-> NoReader, err |-> <<"not found">>, missing |-> FirstNil(m.rs) - 1]
    ELSE [rdr |-> m, err |-> NoErr, missing |-> -1]

\* The loop of NewReader over the sorted directory entries des[k..].
RECURSIVE ScanDir(_, _, _, _)
ScanDir(fs, des, k, m) ==
    IF k > Len(des) THEN ScanFinish(m)
    ELSE IF ~Matches(des[k]) THEN ScanDir(fs, des, k + 1, m)
    ELSE LET nm      == des[k]
             p       == ParseFileName(nm)
             first   == m.rsNil
             m1      == IF first /\ p.ok THEN FirstEntry(p) ELSE m
             e       == EntryError(m1, first, p)
             h       == cdbNew(fs, nm, m1.cdbHash)
             fail(x) == [rdr |-> NoReader, err |-> x, missing |-> -1]
         IN  IF e # NoErr THEN fail(e)
             ELSE IF p.u2 >= Len(m1.rs) THEN fail(Panic)
             ELSE IF h.err # NoErr THEN fail(h.err)
             ELSE ScanDir(fs, des, k + 1, [m1 EXCEPT !.rs[p.u2 + 1] = h.h])

\* NewReader(dir) on the directory holding fs.
NewReader(fs) == ScanDir(fs, SortNames(DOMAIN fs), 1, NoReader)

\* os.ReadDir(path) when path is not a directory: no entries and an error.
ReadDirOfFile(fs, nm) ==
    IF nm \in DOMAIN fs THEN <<"not a directory">> ELSE <<"no such file or directory">>

\* The single-file Reader whose expC was lowered as for a set of 2 shards.
NewReaderFileLowersExpC(fs, nm) ==
    LET h == IF nm \in DOMAIN fs THEN cdbNew(fs, nm, "nil")
             ELSE [h |-> NilHandle, err |-> <<"mmap.Open">>]
    IN  IF h.err = NoErr
        THEN [rdr |-> [rs |-> <<h.h>>, rsNil |-> FALSE, expC |-> 31, version |-> 0,
                       bucketHash |-> "unset", cdbHash |-> "nil"],
              err |-> NoErr, missing |-> -1]
        ELSE [rdr |-> NoReader, err |-> ReadDirOfFile(fs, nm), missing |-> -1]

\* NewReader(path) when path is the file nm of the directory, or is missing:
\* os.ReadDir fails with no entries, and the file, if mmap.Open and
\* cdb.New(fh, nil) take it, is the only shard; if not, the error of
\* os.ReadDir is returned.
NewReaderFile(fs, nm) ==
    LET h == IF nm \in DOMAIN fs THEN cdbNew(fs, nm, "nil")
             ELSE [h |-> NilHandle, err |-> <<"mmap.Open">>]
    IN  IF h.err = NoErr
        THEN [rdr |-> [rs |-> <<h.h>>, rsNil |-> FALSE, expC |-> 32, version |-> 0,
                       bucketHash |-> "unset", cdbHash |-> "nil"],
              err |-> NoErr, missing |-> -1]
        ELSE [rdr |-> NoReader, err |-> ReadDirOfFile(fs, nm), missing |-> -1]

\* Reader.Close: m.rs = nil, and every handle it held is closed.
ReaderClose(m) == [m |-> [m EXCEPT !.rs = <<>>, !.rsNil = TRUE], err |-> NoErr]

\* Reader.Get; bucket calling a routing hash that is nil panics.
ReaderGet(m, key) ==
    LET b == bucket(m.bucketHash, key, m.expC)
    IN  IF m.expC # 32 /\ m.bucketHash = "unset"
        THEN [found |-> FALSE, val |-> <<>>, err |-> Panic]
        ELSE IF b >= Len(m.rs) THEN [found |-> FALSE, val |-> <<>>, err |-> Panic]
        ELSE cdbGet(m.rs[b + 1], key)

\* Reader.Iter handing out a cursor at the start of the last shard.
ReaderIterAtLastShard(m) == [i |-> Len(m.rs) - 1, pos |-> 0, err |-> NoErr]

\* Reader.Iter: the cursor is (shard i, pos records of it consumed, the error
\* of the shard's own cursor).
ReaderIter(m) == [i |-> 0, pos |-> 0, err |-> NoErr]

\* NextShard giving up at the first empty shard.
NextShardStopAtEmpty(m, it) ==
    IF it.i < Len(m.rs) - 1 /\ cdbIterNext(m.rs[it.i + 2], 0).ok
    THEN [it |-> [i |-> it.i + 1, pos |-> 1, err |-> NoErr], ok |-> TRUE]
    ELSE [it |-> it, ok |-> FALSE]

\* The loop of Iterator.Next after the current shard's cursor returned false:
\* each following shard gets a new cursor, which replaces the old one.
RECURSIVE NextShard(_, _)
NextShard(m, it) ==
    IF it.i < Len(m.rs) - 1
    THEN LET c == cdbIterNext(m.rs[it.i + 2], 0)
         IN  IF c.ok
             THEN [it |-> [i |-> it.i + 1, pos |-> c.pos, err |-> c.err], ok |-> TRUE]
             ELSE NextShard(m, [i |-> it.i + 1, pos |-> c.pos, err |-> c.err])
    ELSE [it |-> it, ok |-> FALSE]

\* Iterator.Next.
IteratorNext(m, it) ==
    LET c == cdbIterNext(m.rs[it.i + 1], it.pos)
    IN  IF c.ok
        THEN [it |-> [it EXCEPT !.pos = c.pos, !.err = c.err], ok |-> TRUE]
        ELSE NextShard(m, [it EXCEPT !.pos = c.pos, !.err = c.err])

\* Iterator.Err.
IteratorErr(it) == it.err

\* Iterator.Key and Iterator.Value after a successful Next.
IteratorRecord(m, it) == m.rs[it.i + 1].recs[it.pos]

\* for it.Next() { ... it.Key(), it.Value() ... }: the records visited.
RECURSIVE IterateFrom(_, _)
IterateFrom(m, it) ==
    LET n == IteratorNext(m, it)
    IN  IF n.ok THEN <<IteratorRecord(m, n.it)>> \o IterateFrom(m, n.it) ELSE <<>>

\* The Iterator when its Next has returned false.
RECURSIVE IterateEnd(_, _)
IterateEnd(m, it) ==
    LET n == IteratorNext(m, it)
    IN  IF n.ok THEN IterateEnd(m, n.it) ELSE n.it

----------------------------------------------------------------------------
(* Writer.Put, with the grow-and-retry of an auto-growing Writer.          *)
\* for _, w := range m.ws { if err := w.Close(); err != nil { return err } }
RECURSIVE CloseAll(_, _, _)
CloseAll(fs, ws, i) ==
    IF i > Len(ws) THEN [fs |-> fs, ws |-> ws, err |-> NoErr]
    ELSE LET c == cdbClose(fs, ws[i])
         IN  IF c.err # NoErr THEN [fs |-> fs, ws |-> ws, err |-> c.err]
             ELSE CloseAll(c.fs, [ws EXCEPT ![i].closed = TRUE], i + 1)

\* for _, w := range m.ws { _ = os.Remove(w.fileName) }
RemoveFiles(fs, ws) ==
    LET gone == {ws[i].fileName : i \in 1..Len(ws)}
    IN  [nm \in DOMAIN fs \ gone |-> fs[nm]]

(* Every result is [m, fs, err, nest]: the caller's Writer afterwards, the  *)
(* directory, the error returned, and (for the properties only) how deep   *)
(* growth nested inside the call: 0 no growth, 1 one growth, 2 a growth    *)
(* inside a growth.                                                        *)

Max(a, b) == IF a >= b THEN a ELSE b

RECURSIVE Put(_, _, _, _)
RECURSIVE Reinsert(_, _, _, _, _)

\* One step of the re-insertion loop, p being the result of its m2.Put.
ReinsertNext(p, recs, k, nest) ==
    IF p.err # NoErr THEN [p EXCEPT !.nest = Max(nest, p.nest)]
    ELSE Reinsert(p.m, p.fs, recs, k + 1, Max(nest, p.nest))

\* for it.Next() { if err := m2.Put(it.Key(), it.Value()); err != nil { return err } }
Reinsert(m2, fs, recs, k, nest) ==
    IF k > Len(recs) THEN [m |-> m2, fs |-> fs, err |-> NoErr, nest |-> nest]
    ELSE ReinsertNext(Put(m2, fs, recs[k][1], recs[k][2]), recs, k, nest)

\* EnableGrowth left out: the doubled Writer stays as NewWriter made it.
EnableGrowthSkipped(m2) == m2

\* m2.canGrow = true
EnableGrowth(m2) == [m2 EXCEPT !.canGrow = TRUE]

\* GrowSwap copying the new Writer's handles but not its expC.
GrowSwapKeepsExpC(mc, p2) ==
    IF p2.err # NoErr
    THEN [m |-> mc, fs |-> p2.fs, err |-> p2.err, nest |-> 1 + p2.nest]
    ELSE [m    |-> [p2.m EXCEPT !.expC = mc.expC],
          fs   |-> WriterClose(mc, RemoveFiles(p2.fs, mc.ws)).fs,
          err  |-> NoErr,
          nest |-> 1 + p2.nest]

\* The end of a growth, p2 being the result of the re-insertion loop: the old
\* files are removed, the old Writer is closed and *m = *m2.
GrowSwap(mc, p2) ==
    IF p2.err # NoErr
    THEN [m |-> mc, fs |-> p2.fs, err |-> p2.err, nest |-> 1 + p2.nest]
    ELSE [m    |-> p2.m,
          fs   |-> WriterClose(mc, RemoveFiles(p2.fs, mc.ws)).fs,
          err  |-> NoErr,
          nest |-> 1 + p2.nest]

\* After the re-insertion loop (p2): if err = it.Err(); err != nil, itErr being
\* what it.Err() returns once Next has returned false.
GrowEnd(mc, itErr, p2) ==
    IF p2.err # NoErr \/ itErr = NoErr THEN GrowSwap(mc, p2)
    ELSE [m |-> mc, fs |-> p2.fs, err |-> Wrap("iterate", itErr), nest |-> 1 + p2.nest]

\* After the failing record went into the new Writer (p1): the old records follow.
GrowCopy(mc, rdr, p1) ==
    IF IsPanic(p1.err) THEN [m |-> mc, fs |-> p1.fs, err |-> Panic, nest |-> 1 + p1.nest]
    ELSE IF p1.err # NoErr
    THEN [m |-> mc, fs |-> p1.fs, err |-> Wrap("put", p1.err), nest |-> 1 + p1.nest]
    ELSE GrowEnd(mc, IteratorErr(IterateEnd(rdr, ReaderIter(rdr))),
                 Reinsert(p1.m, p1.fs, IterateFrom(rdr, ReaderIter(rdr)), 1, p1.nest))

\* GrowInto copying the old records first and putting the failing record last.
GrowIntoOldFirst(mc, rdr, nw, key, val) ==
    LET p2 == Reinsert(EnableGrowth(nw.m), nw.fs, IterateFrom(rdr, ReaderIter(rdr)), 1, 0)
        p1 == Put(p2.m, p2.fs, key, val)
    IN  IF nw.err # NoErr
        THEN [m |-> mc, fs |-> nw.fs, err |-> Wrap("create", nw.err), nest |-> 1]
        ELSE IF p2.err # NoErr
        THEN [m |-> mc, fs |-> p2.fs, err |-> p2.err, nest |-> 1 + p2.nest]
        ELSE IF p1.err # NoErr
        THEN [m |-> mc, fs |-> p1.fs, err |-> Wrap("put", p1.err), nest |-> 1 + p1.nest]
        ELSE GrowSwap(mc, p1)

\* After NewWriter(m.path, 2*len(m.ws)) returned nw.
GrowInto(mc, rdr, nw, key, val) ==
    IF nw.err # NoErr
    THEN [m |-> mc, fs |-> nw.fs, err |-> Wrap("create", nw.err), nest |-> 1]
    ELSE GrowCopy(mc, rdr, Put(EnableGrowth(nw.m), nw.fs, key, val))

\* After NewReader(m.path) returned r on the directory fs.
GrowRead(mc, fs, r, key, val) ==
    IF IsPanic(r.err) THEN [m |-> mc, fs |-> fs, err |-> Panic, nest |-> 1]
    ELSE IF r.err # NoErr
    THEN [m |-> mc, fs |-> fs, err |-> Wrap("read", r.err), nest |-> 1]
    ELSE GrowInto(mc, r.rdr, NewWriter(fs, 2 * Len(mc.ws)), key, val)

\* After the build-handles were closed (c).
GrowClosed(m, c, key, val) ==
    IF c.err # NoErr
    THEN [m |-> [m EXCEPT !.ws = c.ws], fs |-> c.fs, err |-> c.err, nest |-> 1]
    ELSE GrowRead([m EXCEPT !.ws = c.ws], c.fs, NewReader(c.fs), key, val)

\* The growth branch of Put.
Grow(m, fs, key, val) == GrowClosed(m, CloseAll(fs, m.ws, 1), key, val)

\* PutResult without the test of canGrow: a fixed Writer grows too.
PutResultAlwaysGrow(m, fs, key, val, p) ==
    IF p.err = NoErr \/ ~ErrorsIs(p.err, ErrTooMuchData)
    THEN [m |-> m, fs |-> p.fs, err |-> p.err, nest |-> 0]
    ELSE Grow(m, fs, key, val)

\* Put once the routed build-handle answered p.
PutResult(m, fs, key, val, p) ==
    IF p.err = NoErr \/ ~m.canGrow \/ ~ErrorsIs(p.err, ErrTooMuchData)
    THEN [m |-> m, fs |-> p.fs, err |-> p.err, nest |-> 0]
    ELSE Grow(m, fs, key, val)

\* Writer.Put routed to shard b.
PutAt(m, fs, key, val, b) ==
    IF b >= Len(m.ws) THEN [m |-> m, fs |-> fs, err |-> Panic, nest |-> 0]
    ELSE PutResult(m, fs, key, val, cdbPut(fs, m.ws[b + 1], key, val))

\* Writer.Put.
Put(m, fs, key, val) == PutAt(m, fs, key, val, bucket(m.bucketHash, key, m.expC))

----------------------------------------------------------------------------
(* Dump and Load: the cdbmake format "+klen,vlen:key->val\n".              *)

EOF == <<"EOF">>
ErrUnexpectedEOF == <<"unexpected EOF">>
Canceled == <<"context canceled">>

Plus    == <<43>>                \* "+"
Colon   == <<58>>                \* ":"
Arrow   == <<45, 62>>            \* "->"
Newline == 10

\* dump writing the value where the key belongs and the key where the value does.
dumpSwapped(key, val) ==
    Plus \o Decimal(Len(val)) \o Comma \o Decimal(Len(key)) \o Colon
         \o val \o Arrow \o key \o <<Newline>>

\* dump: the bytes written for one record.
dump(key, val) ==
    Plus \o Decimal(Len(key)) \o Comma \o Decimal(Len(val)) \o Colon
         \o key \o Arrow \o val \o <<Newline>>

\* dump of every record of recs from the k-th on.
RECURSIVE DumpRecords(_, _)
DumpRecords(recs, k) ==
    IF k > Len(recs) THEN <<>>
    ELSE dump(recs[k][1], recs[k][2]) \o DumpRecords(recs, k + 1)

\* Reader.DumpContext with a context that is never cancelled: what is written,
\* and the error returned (that of it.Err() after the loop).
DumpContext(m) ==
    [out |-> DumpRecords(IterateFrom(m, ReaderIter(m)), 1),
     err |-> IteratorErr(IterateEnd(m, ReaderIter(m)))]

\* The format of load's fmt.Fscanf.
LoadFormat == <<Lit(Plus), Verb(10), Lit(Comma), Verb(10), Lit(Colon)>>

\* Literal text of a format against the input from pos: a missing byte is
\* io.ErrUnexpectedEOF, another byte does not match.
RECURSIVE ScanLiteral(_, _, _, _)
ScanLiteral(s, pos, l, j) ==
    IF j > Len(l) THEN [err |-> NoErr, pos |-> pos]
    ELSE IF pos > Len(s) THEN [err |-> ErrUnexpectedEOF, pos |-> pos]
    ELSE IF s[pos] # l[j] THEN [err |-> <<"input does not match format">>, pos |-> pos]
    ELSE ScanLiteral(s, pos + 1, l, j + 1)

\* The token of an unsigned number: digits and underscores.
RECURSIVE TokenEnd(_, _, _)
TokenEnd(s, pos, base) ==
    IF pos <= Len(s) /\ (IsDigit(s[pos], base) \/ s[pos] = 95)
    THEN TokenEnd(s, pos + 1, base) ELSE pos

\* An unsigned integer verb against the input from pos: blanks are skipped,
\* no input left is io.EOF, a newline or no digit is an error.
ScanUint(s, pos, base) ==
    LET from == SkipSpace(s, pos)
        to   == TokenEnd(s, from, base)
    IN  IF from > Len(s) THEN [err |-> EOF, pos |-> from, v |-> 0]
        ELSE IF s[from] = Newline THEN [err |-> <<"unexpected newline">>, pos |-> from, v |-> 0]
        ELSE IF to = from THEN [err |-> <<"expected integer">>, pos |-> from, v |-> 0]
        ELSE IF \E q \in from..(to - 1) : s[q] = 95
        THEN [err |-> <<"invalid syntax">>, pos |-> to, v |-> 0]
        ELSE [err |-> NoErr, pos |-> to, v |-> ParseUint(s, from, to, base, 0)]

\* Fscanf once the i-th item of the format answered c.
RECURSIVE Fscanf(_, _, _, _, _)
FscanfNext(s, format, i, vals, c) ==
    IF c.err # NoErr THEN [err |-> c.err, vals |-> vals, pos |-> c.pos]
    ELSE Fscanf(s, c.pos, format, i + 1,
                IF format[i].kind = "verb" THEN Append(vals, c.v) ELSE vals)

\* fmt.Fscanf(br, format, operands...) reading from s[pos..].
Fscanf(s, pos, format, i, vals) ==
    IF i > Len(format) THEN [err |-> NoErr, vals |-> vals, pos |-> pos]
    ELSE IF format[i].kind = "lit"
    THEN FscanfNext(s, format, i, vals, ScanLiteral(s, pos, format[i].bytes, 1))
    ELSE FscanfNext(s, format, i, vals, ScanUint(s, pos, format[i].base))

\* io.ReadFull(br, buf) for a buf of n bytes: io.EOF when there is no byte
\* left, io.ErrUnexpectedEOF when there are fewer than n.
ReadFull(s, pos, n) ==
    IF n = 0 THEN [buf |-> <<>>, err |-> NoErr, pos |-> pos]
    ELSE IF pos > Len(s) THEN [buf |-> <<>>, err |-> EOF, pos |-> pos]
    ELSE IF Len(s) - pos + 1 < n
    THEN [buf |-> SubSeq(s, pos, Len(s)), err |-> ErrUnexpectedEOF, pos |-> Len(s) + 1]
    ELSE [buf |-> SubSeq(s, pos, pos + n - 1), err |-> NoErr, pos |-> pos + n]

\* br.ReadByte().
ReadByte(s, pos) ==
    IF pos > Len(s) THEN [b |-> 0, err |-> EOF, pos |-> pos]
    ELSE [b |-> s[pos], err |-> NoErr, pos |-> pos + 1]

LoadFail(err, pos) == [key |-> <<>>, val |-> <<>>, err |-> err, pos |-> pos]

\* load after the value was read (v), then the terminator (b).
LoadEnd(key, v, b) ==
    IF b.err # NoErr THEN LoadFail(b.err, b.pos)
    ELSE IF b.b # Newline THEN LoadFail(<<"wanted \\n">>, b.pos)
    ELSE [key |-> key, val |-> v.buf, err |-> NoErr, pos |-> b.pos]

\* load after the separator was read (a).
LoadValue(s, key, valLen, a) ==
    IF a.err # NoErr THEN LoadFail(a.err, a.pos)
    ELSE IF a.buf # Arrow THEN LoadFail(<<"wanted ->">>, a.pos)
    ELSE LET v == ReadFull(s, a.pos, valLen)
         IN  IF v.err # NoErr THEN LoadFail(v.err, v.pos)
             ELSE LoadEnd(key, v, ReadByte(s, v.pos))

\* load after the key was read (k).
LoadKey(s, valLen, k) ==
    IF k.err # NoErr THEN LoadFail(k.err, k.pos)
    ELSE LoadValue(s, k.buf, valLen, ReadFull(s, k.pos, 2))

\* load after the header was scanned (h).
LoadHeader(s, h) ==
    IF h.err # NoErr
    THEN LoadFail(IF ErrorsIs(h.err, ErrUnexpectedEOF) THEN EOF ELSE h.err, h.pos)
    ELSE LoadKey(s, h.vals[2], ReadFull(s, h.pos, h.vals[1]))

\* load accepting any two bytes for the separator.
loadAnySeparator(s, pos) ==
    LET h == Fscanf(s, pos, LoadFormat, 1, <<>>)
        k == ReadFull(s, h.pos, h.vals[1])
        a == ReadFull(s, k.pos, 2)
        v == ReadFull(s, a.pos, h.vals[2])
    IN  IF h.err # NoErr
        THEN LoadFail(IF ErrorsIs(h.err, ErrUnexpectedEOF) THEN EOF ELSE h.err, h.pos)
        ELSE IF k.err # NoErr THEN LoadFail(k.err, k.pos)
        ELSE IF a.err # NoErr THEN LoadFail(a.err, a.pos)
        ELSE IF v.err # NoErr THEN LoadFail(v.err, v.pos)
        ELSE LoadEnd(k.buf, v, ReadByte(s, v.pos))

\* load(br, key, val) reading from s[pos..]: [key, val, err] and where the
\* reader stands afterwards.
load(s, pos) == LoadHeader(s, Fscanf(s, pos, LoadFormat, 1, <<>>))

\* A context that is never looked at.
CtxErrNever(k, cancelAt) == NoErr

\* ctx.Err() at the k-th poll, the context being cancelled before the
\* cancelAt-th poll (0: never).
CtxErr(k, cancelAt) == IF cancelAt # 0 /\ k >= cancelAt THEN Canceled ELSE NoErr

\* Every result is [m, fs, err, puts], puts being the Put calls made:
\* [key, val, err, nest].
RECURSIVE LoadLoop(_, _, _, _, _, _, _)

\* LoadContext after m.Put(key, val) of the record l returned p.
LoadPut(s, l, k, cancelAt, puts, p) ==
    IF p.err # NoErr
    THEN [m |-> p.m, fs |-> p.fs, err |-> p.err,
          puts |-> Append(puts, [key |-> l.key, val |-> l.val, err |-> p.err, nest |-> p.nest])]
    ELSE LoadLoop(p.m, p.fs, s, l.pos, k + 1, cancelAt,
                  Append(puts, [key |-> l.key, val |-> l.val, err |-> p.err, nest |-> p.nest]))

\* LoadContext after load returned l.
LoadStep(m, fs, s, k, cancelAt, puts, l) ==
    IF l.err # NoErr
    THEN [m |-> m, fs |-> fs, puts |-> puts,
          err |-> IF ErrorsIs(l.err, EOF) THEN NoErr ELSE l.err]
    ELSE LoadPut(s, l, k, cancelAt, puts, Put(m, fs, l.key, l.val))

\* The loop of LoadContext at its k-th turn, the reader standing at pos.
LoadLoop(m, fs, s, pos, k, cancelAt, puts) ==
    IF CtxErr(k, cancelAt) # NoErr
    THEN [m |-> m, fs |-> fs, err |-> CtxErr(k, cancelAt), puts |-> puts]
    ELSE LoadStep(m, fs, s, k, cancelAt, puts, load(s, pos))

\* Writer.LoadContext(ctx, r), r holding the bytes s.
LoadContext(m, fs, s, cancelAt) == LoadLoop(m, fs, s, 1, 1, cancelAt, <<>>)

----------------------------------------------------------------------------
(* The state machine: one caller builds a shard set in an empty directory  *)
(* (NewWriter, Puts, Close), then opens it (NewReader) and reads it (Get,  *)
(* Iter, Next).                                                            *)

\* The most Put calls of one run.
MaxPuts == 3

\* Keys whose routing hashes start 011, 001, 110 and 010.
Keys == {<<97, 97>>, <<33, 97>>, <<200, 97>>, <<65, 97>>}
Vals == {<<120>>, <<121, 121>>}
\* The n given to NewWriter.
NValues == {-1, 0, 1, 3}

VARIABLES
    fs,        \* the directory: file name -> [recs, final, hash]
    w,         \* the caller's Writer
    wstate,    \* "none", "open", "closed", "failed" (NewWriter returned an error);
               \* "absent" when the directory is given
    nshards,   \* the Writer's shard count when it was closed
    hist,      \* the Put calls so far: [key, val, err, nest]
    r,         \* the result of NewReader: [rdr, err, missing]
    rstate,    \* "none", "open", "failed", "closed"
    got,       \* the result of the last Get: [called, key, found, val, err]
    it,        \* the Iterator: [i, pos, err]
    itstate,   \* "none", "active" (last Next returned true or none yet), "done"
    seen,      \* the records the Iterator yielded
    made,      \* the last NewWriter call that names its n: [called, n, failAt, stage, err]
    cl,        \* Close calls on a nil or closed Writer and on a Reader: [wn, werr, rn, rerr];
               \* the Close of an open Writer: the handles whose engine Close
               \* failed and what Close returned: [wfail, cerr]
    stream,    \* the bytes handed to Load
    orig,      \* the shard set the stream was dumped from, and what was done to the
               \* dump: [recs, shards, damage, at]
    ld,        \* the result of LoadContext: [called, cancelAt, err, nput]
    it2,       \* a second Iterator over the same Reader
    itstate2,  \* as itstate, of the second Iterator
    seen2      \* the records the second Iterator yielded

\* What the calls of the basic life cycle leave alone.
aux == <<made, cl, stream, orig, ld, it2, itstate2, seen2>>

vars == <<fs, w, wstate, nshards, hist, r, rstate, got, it, itstate, seen,
          made, cl, stream, orig, ld, it2, itstate2, seen2>>

NoWriter == [ws |-> <<>>, bucketHash |-> "unset", expC |-> 32, canGrow |-> FALSE]
NoResult == [rdr |-> NoReader, err |-> NoErr, missing |-> -1]
NoGet    == [called |-> FALSE, key |-> <<>>, found |-> FALSE, val |-> <<>>, err |-> NoErr]
NoIter   == [i |-> 0, pos |-> 0, err |-> NoErr]
NoNew    == [called |-> FALSE, n |-> 0, failAt |-> -1, stage |-> "none", err |-> NoErr]
NoClose  == [wn |-> 0, werr |-> NoErr, rn |-> 0, rerr |-> NoErr,
             wfail |-> {}, cerr |-> NoErr]
NoOrig   == [recs |-> <<>>, shards |-> 0, damage |-> "none", at |-> 0]
NoLoad   == [called |-> FALSE, cancelAt |-> 0, err |-> NoErr, nput |-> 0]
EmptyDir == [nm \in {} |-> cdbNewWriter("nil")]

\* Nothing but the basic life cycle has happened.
AuxInit ==
    /\ made = NoNew
    /\ cl = NoClose
    /\ stream = <<>>
    /\ orig = NoOrig
    /\ ld = NoLoad
    /\ it2 = NoIter
    /\ itstate2 = "none"
    /\ seen2 = <<>>

Init ==
    /\ fs = EmptyDir
    /\ w = NoWriter
    /\ wstate = "none"
    /\ nshards = 0
    /\ hist = <<>>
    /\ r = NoResult
    /\ rstate = "none"
    /\ got = NoGet
    /\ it = NoIter
    /\ itstate = "none"
    /\ seen = <<>>
    /\ AuxInit

DoNewWriter ==
    /\ wstate = "none"
    /\ \E n \in NValues :
        LET nw == NewWriter(fs, n)
        IN  /\ w' = nw.m
            /\ fs' = nw.fs
    /\ wstate' = "open"
    /\ UNCHANGED <<nshards, hist, r, rstate, got, it, itstate, seen, aux>>

DoPut ==
    /\ wstate = "open"
    /\ Len(hist) < MaxPuts
    /\ \E key \in Keys, val \in Vals :
        LET p == Put(w, fs, key, val)
        IN  /\ w' = p.m
            /\ fs' = p.fs
            /\ hist' = Append(hist, [key |-> key, val |-> val, err |-> p.err, nest |-> p.nest])
    /\ UNCHANGED <<wstate, nshards, r, rstate, got, it, itstate, seen, aux>>

DoWriterClose ==
    /\ wstate = "open"
    /\ LET c == WriterClose(w, fs)
       IN  /\ w' = c.m
           /\ fs' = c.fs
    /\ nshards' = Len(w.ws)
    /\ wstate' = "closed"
    /\ UNCHANGED <<hist, r, rstate, got, it, itstate, seen, aux>>

DoNewReader ==
    /\ wstate \in {"closed", "absent", "failed"}
    /\ rstate = "none"
    /\ r' = NewReader(fs)
    /\ rstate' = IF r'.err = NoErr THEN "open" ELSE "failed"
    /\ UNCHANGED <<fs, w, wstate, nshards, hist, got, it, itstate, seen, aux>>

DoGet ==
    /\ rstate = "open"
    /\ itstate = "none"
    /\ \E key \in Keys :
        LET g == ReaderGet(r.rdr, key)
        IN  got' = [called |-> TRUE, key |-> key, found |-> g.found,
                    val |-> g.val, err |-> g.err]
    /\ UNCHANGED <<fs, w, wstate, nshards, hist, r, rstate, it, itstate, seen, aux>>

DoIter ==
    /\ rstate = "open"
    /\ itstate = "none"
    /\ it' = ReaderIter(r.rdr)
    /\ itstate' = "active"
    /\ UNCHANGED <<fs, w, wstate, nshards, hist, r, rstate, got, seen, aux>>

DoNext ==
    /\ itstate \in {"active", "done"}
    /\ LET n == IteratorNext(r.rdr, it)
       IN  /\ it' = n.it
           /\ itstate' = IF n.ok THEN "active" ELSE "done"
           /\ seen' = IF n.ok THEN Append(seen, IteratorRecord(r.rdr, n.it)) ELSE seen
    /\ UNCHANGED <<fs, w, wstate, nshards, hist, r, rstate, got, aux>>

Next ==
    \/ DoNewWriter
    \/ DoPut
    \/ DoWriterClose
    \/ DoNewReader
    \/ DoGet
    \/ DoIter
    \/ DoNext

Spec == Init /\ [][Next]_vars

----------------------------------------------------------------------------
(* The life cycle with any small n, with NewWriter failing part-way, and   *)
(* with Close called again on a nil or closed Writer and on a Reader.      *)

\* NewWriter is called with n in -MaxN..MaxN.
MaxN == 4
\* The most Put calls of one run of this life cycle.
MaxLifePuts == 1
\* The most repeated Close calls on the Writer, and Close calls on the Reader.
MaxCloses == 2

DoNewWriterN ==
    /\ wstate = "none"
    /\ \E n \in (-MaxN)..MaxN :
        \E failAt \in (-1)..(Len(NewWriter(fs, n).m.ws) - 1) :
        \E stage \in IF failAt = -1 THEN {"none"} ELSE {"create", "handle"} :
            LET c == NewWriterFail(fs, n, failAt, stage)
            IN  /\ w' = c.m
                /\ fs' = c.fs
                /\ wstate' = IF c.err = NoErr THEN "open" ELSE "failed"
                /\ made' = [called |-> TRUE, n |-> n, failAt |-> failAt,
                            stage |-> stage, err |-> c.err]
    /\ UNCHANGED <<nshards, hist, r, rstate, got, it, itstate, seen,
                   cl, stream, orig, ld, it2, itstate2, seen2>>

DoPutFew ==
    /\ Len(hist) < MaxLifePuts
    /\ DoPut

\* Writer.Close on a nil Writer (none was made yet) or on a closed one.
DoWriterCloseAgain ==
    /\ wstate \in {"none", "closed"}
    /\ cl.wn < MaxCloses
    /\ LET c == WriterClose(w, fs)
       IN  /\ w' = c.m
           /\ fs' = c.fs
           /\ cl' = [cl EXCEPT !.wn = @ + 1, !.werr = c.err]
    /\ UNCHANGED <<wstate, nshards, hist, r, rstate, got, it, itstate, seen,
                   made, stream, orig, ld, it2, itstate2, seen2>>

\* Reader.Close, on an open Reader or on a closed one.
DoReaderClose ==
    /\ rstate \in {"open", "closed"}
    /\ cl.rn < MaxCloses
    /\ LET c == ReaderClose(r.rdr)
       IN  /\ r' = [r EXCEPT !.rdr = c.m]
           /\ cl' = [cl EXCEPT !.rn = @ + 1, !.rerr = c.err]
    /\ rstate' = "closed"
    /\ UNCHANGED <<fs, w, wstate, nshards, hist, got, it, itstate, seen,
                   made, stream, orig, ld, it2, itstate2, seen2>>

NextLife ==
    \/ DoNewWriterN
    \/ DoPutFew
    \/ DoWriterClose
    \/ DoWriterCloseAgain
    \/ DoNewReader
    \/ DoReaderClose

SpecLife == Init /\ [][NextLife]_vars

----------------------------------------------------------------------------
(* NewReader on a directory it is given: any few files of a pool of names  *)
(* (complete and incomplete shard sets, one of them of 3 shards, legacy    *)
(* names, an unknown version,                                              *)
(* indices at and above totalShards, a malformed and an unrelated name).   *)

\* The most files in a given directory.
MaxFiles == 4

Malformed == <<109, 99, 100, 98, 45, 120, 46, 99, 100, 98>>     \* "mcdb-x.cdb"
Unrelated == <<110, 111, 116, 101, 115>>                        \* "notes"

NamePool ==
    {FormatFileName(1, 2, i, 2) : i \in 0..3}
        \cup {FormatFileName(1, 4, i, 3) : i \in 0..4}
        \cup {FormatFileName(1, 3, i, 2) : i \in 0..2}
        \cup {FormatFileNameV0(2, i, 2) : i \in 0..1}
        \cup {FormatFileName(2, 2, 0, 2), FormatFileName(1, 0, 0, 1), Malformed, Unrelated}

\* A finalized, empty shard file built with the hash its name's version implies.
GivenFile(nm) ==
    [recs |-> <<>>, final |-> TRUE, errAt |-> 0,
     hash |-> IF HasPrefix(nm, PrefixV) THEN "nil" ELSE "fnvHash"]

InitDir ==
    /\ fs \in {[nm \in S |-> GivenFile(nm)] :
                  S \in {T \in SUBSET NamePool : Cardinality(T) <= MaxFiles}}
    /\ w = NoWriter
    /\ wstate = "absent"
    /\ nshards = 0
    /\ hist = <<>>
    /\ r = NoResult
    /\ rstate = "none"
    /\ got = NoGet
    /\ it = NoIter
    /\ itstate = "none"
    /\ seen = <<>>
    /\ AuxInit

NextDir ==
    \/ DoNewReader
    \/ DoGet

SpecDir == InitDir /\ [][NextDir]_vars

----------------------------------------------------------------------------
(* What the properties speak of.                                           *)

Last(seq) == seq[Len(seq)]

RECURSIVE Count(_, _)
Count(seq, x) ==
    IF seq = <<>> THEN 0
    ELSE (IF Head(seq) = x THEN 1 ELSE 0) + Count(Tail(seq), x)

\* The same records, each as often, in any order.
SameBag(a, b) ==
    /\ Len(a) = Len(b)
    /\ \A i \in 1..Len(a) : Count(a, a[i]) = Count(b, a[i])

\* The records of shards i.. of a Reader, shard by shard.
RECURSIVE ShardMajor(_, _)
ShardMajor(rs, i) == IF i > Len(rs) THEN <<>> ELSE rs[i].recs \o ShardMajor(rs, i + 1)

\* The (key, value) pairs whose Put returned nil.
RECURSIVE PutsDone(_)
PutsDone(h) ==
    IF h = <<>> THEN <<>>
    ELSE (IF Head(h).err = NoErr THEN <<<<Head(h).key, Head(h).val>>>> ELSE <<>>)
             \o PutsDone(Tail(h))

Grew == \E i \in 1..Len(hist) : hist[i].nest >= 1
NoPutFailed == \A i \in 1..Len(hist) : hist[i].err = NoErr
DistinctKeys == \A i, j \in 1..Len(hist) : i # j => hist[i].key # hist[j].key

\* C1: an auto-growing Writer whose Puts forced growth, closed and reopened:
\* NewReader succeeds and the shards hold every pair put exactly once.
C1_GrowthKeepsEveryRecord ==
    (rstate # "none" /\ w.canGrow /\ Grew) =>
        /\ r.err = NoErr
        /\ SameBag(ShardMajor(r.rdr.rs, 1), PutsDone(hist))

\* The value put for key (the keys of hist being distinct), or <<>> with FALSE.
PutIndex(key) == {i \in 1..Len(hist) : hist[i].key = key}

\* C2: distinct keys put without a failing Put, the Writer closed and the
\* directory reopened: Get routes as the Writer did, returns the value put for
\* a put key, and nothing (and no error) for a key never put.
C2_GetAgreesWithPuts ==
    (rstate # "none" /\ NoPutFailed /\ DistinctKeys) =>
        /\ rstate = "open"
        /\ r.rdr.expC = w.expC
        /\ r.rdr.bucketHash = w.bucketHash
        /\ got.called =>
              /\ got.err = NoErr
              /\ got.found = (PutIndex(got.key) # {})
              /\ \A i \in PutIndex(got.key) : got.val = hist[i].val
              /\ PutIndex(got.key) = {} => got.val = <<>>

\* A put key was looked up in a shard set of several shards, two of them used.
C2_Witness ==
    /\ rstate = "open" /\ NoPutFailed /\ DistinctKeys
    /\ got.called /\ got.found
    /\ Len(hist) >= 2
    /\ \E i, j \in 1..Len(r.rdr.rs) : i # j /\ r.rdr.rs[i].recs # <<>> /\ r.rdr.rs[j].recs # <<>>
    /\ bucket(r.rdr.bucketHash, got.key, r.rdr.expC) > 0

IsPrefix(a, b) == Len(a) <= Len(b) /\ SubSeq(b, 1, Len(a)) = a

\* C3: a fresh Iterator yields the records of shard 0, then of shard 1, ...,
\* each shard in its own order, every record once, skipping empty shards; it
\* returns false only when all of them were yielded.
C3_IteratorShardMajor ==
    (rstate = "open" /\ itstate # "none") =>
        /\ IsPrefix(seen, ShardMajor(r.rdr.rs, 1))
        /\ itstate = "done" => seen = ShardMajor(r.rdr.rs, 1)

\* The Iterator finished over four shards, an empty one between two used ones.
C3_Witness ==
    /\ rstate = "open" /\ itstate = "done"
    /\ Len(seen) >= 2
    /\ \E i, j, k \in 1..Len(r.rdr.rs) :
          /\ i < j /\ j < k
          /\ r.rdr.rs[i].recs # <<>> /\ r.rdr.rs[j].recs = <<>> /\ r.rdr.rs[k].recs # <<>>

\* C4: with growth enabled no Put returns ErrTooMuchData, bare or wrapped.
C4_NoCapacityErrorWhenGrowing ==
    w.canGrow => \A i \in 1..Len(hist) : ~ErrorsIs(hist[i].err, ErrTooMuchData)

\* A Put of an auto-growing Writer hit a full shard, grew and returned nil, and
\* another one needed a growth inside the growth.
C4_Witness ==
    /\ w.canGrow
    /\ \E i \in 1..Len(hist) : hist[i].nest = 1 /\ hist[i].err = NoErr
    /\ \E i \in 1..Len(hist) : hist[i].nest = 2

\* The file of the shard a Put of key is routed to, and whether it is full for it.
RoutedFile(m, key) == m.ws[bucket(m.bucketHash, key, m.expC) + 1].fileName
RoutedFull(m, dir, key, val) ==
    DataSize(dir[RoutedFile(m, key)].recs) + EntrySize(key, val) > ShardCap

\* C5: a Put of a fixed Writer (n > 0) whose shard is full returns
\* ErrTooMuchData itself and changes neither the Writer nor any file; a Put
\* routed to a shard with room, also after such a failure, returns nil and
\* appends the record to that shard's file alone.
C5_FixedWriterPut ==
    [][(wstate = "open" /\ ~w.canGrow /\ Len(hist') = Len(hist) + 1) =>
          LET e == Last(hist')
          IN  IF RoutedFull(w, fs, e.key, e.val)
              THEN e.err = ErrTooMuchData /\ w' = w /\ fs' = fs
              ELSE /\ e.err = NoErr
                   /\ w' = w
                   /\ fs' = [fs EXCEPT ![RoutedFile(w, e.key)].recs =
                                          Append(@, <<e.key, e.val>>)]]_vars

\* A fixed Writer of several shards refused a Put and accepted a later one.
C5_Witness ==
    /\ wstate = "open" /\ ~w.canGrow /\ Len(w.ws) > 1
    /\ \E i, j \in 1..Len(hist) :
          i < j /\ hist[i].err = ErrTooMuchData /\ hist[j].err = NoErr

\* C6: after NewWriter, Puts and Close, NewReader succeeds and holds as many
\* shards as the Writer had when it was closed.
C6_ReaderSeesWriterShards ==
    (wstate = "closed" /\ rstate # "none") =>
        r.err = NoErr /\ Len(r.rdr.rs) = nshards

\* C7: a Put whose growth needed a growth of the doubled Writer returns nil,
\* and the Writer's files then hold every record put.
C7_NestedGrowthSucceeds ==
    \A i \in 1..Len(hist) : hist[i].nest >= 2 => hist[i].err = NoErr

\* The matching file names of the directory and what they parse to.
MatchingNames == {nm \in DOMAIN fs : Matches(nm)}
Parsed == {ParseFileName(nm) : nm \in MatchingNames}
Indices == {p.u2 : p \in Parsed}

\* Every matching name parses, all with one known version and one totalShards
\* t, and every shardIndex is below t.
WellFormedSet(t) ==
    /\ MatchingNames # {}
    /\ \A p \in Parsed : p.ok /\ p.u1 = t /\ p.u2 < t /\ p.v \in {0, 1}
    /\ \A p, q \in Parsed : p.v = q.v

\* C8: NewReader returns a Reader only when the shard indices of the matching
\* files fill [0, totalShards); it fails when no file matches, and it fails
\* naming the first missing shard when a well-formed set has a gap.
C8_ReaderOnlyOfCompleteSet ==
    /\ rstate = "open" =>
          \E t \in 1..8 :
              /\ \A p \in Parsed : p.ok /\ p.u1 = t
              /\ Indices = 0..(t - 1)
              /\ Len(r.rdr.rs) = t
              /\ \A i \in 1..t : r.rdr.rs[i].open
    /\ (rstate # "none" /\ MatchingNames = {}) =>
          rstate = "failed" /\ r.err = <<"no files found">>
    /\ \A t \in 1..8 :
          (rstate # "none" /\ WellFormedSet(t) /\ Indices # 0..(t - 1)) =>
              /\ rstate = "failed"
              /\ r.err = <<"not found">>
              /\ r.missing \in 0..(t - 1)
              /\ r.missing \notin Indices
              /\ \A i \in 0..(r.missing - 1) : i \in Indices

\* Shards 0 and 2 of 4 are there, shard 1 is not: NewReader failed naming 1.
C8_Witness ==
    /\ rstate = "failed"
    /\ WellFormedSet(4)
    /\ Indices = {0, 2}
    /\ r.err = <<"not found">>
    /\ r.missing = 1

\* C9: a Reader is constructed only from files that all carry the same
\* totalShards and the same version.
C9_OneShapePerReader ==
    /\ rstate = "open" =>
          \A p, q \in Parsed : p.ok /\ q.ok /\ p.u1 = q.u1 /\ p.v = q.v
    /\ (rstate # "none" /\ \E p, q \in Parsed :
                               p.ok /\ q.ok /\ (p.u1 # q.u1 \/ p.v # q.v)) =>
          rstate = "failed"

\* A legacy name and a v1 name of the same totalShards: NewReader failed.
C9_Witness ==
    /\ rstate = "failed"
    /\ r.err = <<"Version mismatch">>
    /\ \E p, q \in Parsed : p.ok /\ q.ok /\ p.u1 = q.u1 /\ p.v = 0 /\ q.v = 1

\* C10: NewReader never faults: every matching file is rejected with an error
\* or stored at an index below totalShards.
C10_NoFaultOnIndex ==
    rstate # "none" =>
        /\ ~IsPanic(r.err)
        /\ rstate = "open" => \A p \in Parsed : p.u2 < Len(r.rdr.rs)

----------------------------------------------------------------------------
(* Iteration over a shard set some of whose shards fail to read, by two    *)
(* Iterators of one Reader.                                                *)

\* for each record: m.Put(key, val), until one fails.
RECURSIVE PutAll(_, _, _)
PutAll(p, recs, k) ==
    IF k > Len(recs) \/ p.err # NoErr THEN p
    ELSE PutAll(Put(p.m, p.fs, recs[k][1], recs[k][2]), recs, k + 1)

\* NewWriter(dir, n) on an empty directory, a Put of every record, Close.
Built(recs, n) ==
    LET c == NewWriter(EmptyDir, n)
        p == PutAll([m |-> c.m, fs |-> c.fs, err |-> NoErr, nest |-> 0], recs, 1)
    IN  [fs |-> WriterClose(p.m, p.fs).fs, err |-> p.err, shards |-> Len(p.m.ws)]

\* The keys of S in byte order, each with an empty value.
RecordsOf(S) == LET ks == SortNames(S) IN [i \in 1..Len(ks) |-> <<ks[i], <<>>>>]

\* The directory dir with any of its files failing at any one of its records.
Damaged(dir) ==
    {[nm \in DOMAIN dir |-> [dir[nm] EXCEPT !.errAt = e[nm]]] :
        e \in {f \in [DOMAIN dir -> 0..Cardinality(Keys)] :
                  \A nm \in DOMAIN dir : f[nm] <= Len(dir[nm].recs)}}

InitIter ==
    /\ \E S \in SUBSET Keys : \E n \in {2, 4} :
          /\ Built(RecordsOf(S), n).err = NoErr
          /\ fs \in Damaged(Built(RecordsOf(S), n).fs)
    /\ w = NoWriter
    /\ wstate = "absent"
    /\ nshards = 0
    /\ hist = <<>>
    /\ r = NoResult
    /\ rstate = "none"
    /\ got = NoGet
    /\ it = NoIter
    /\ itstate = "none"
    /\ seen = <<>>
    /\ AuxInit

\* Reader.Iter once more: the second Iterator.
DoIter2 ==
    /\ rstate = "open"
    /\ itstate2 = "none"
    /\ it2' = ReaderIter(r.rdr)
    /\ itstate2' = "active"
    /\ UNCHANGED <<fs, w, wstate, nshards, hist, r, rstate, got, it, itstate, seen,
                   made, cl, stream, orig, ld, seen2>>

\* Iterator.Next of the second Iterator.
DoNext2 ==
    /\ itstate2 \in {"active", "done"}
    /\ LET n == IteratorNext(r.rdr, it2)
       IN  /\ it2' = n.it
           /\ itstate2' = IF n.ok THEN "active" ELSE "done"
           /\ seen2' = IF n.ok THEN Append(seen2, IteratorRecord(r.rdr, n.it)) ELSE seen2
    /\ UNCHANGED <<fs, w, wstate, nshards, hist, r, rstate, got, it, itstate, seen,
                   made, cl, stream, orig, ld>>

NextIter ==
    \/ DoNewReader
    \/ DoIter
    \/ DoNext
    \/ DoIter2
    \/ DoNext2

SpecIter == InitIter /\ [][NextIter]_vars

----------------------------------------------------------------------------
(* Load of a dump, whole, cut short or with one byte overwritten, into a   *)
(* new Writer in an emptied directory; the context may be cancelled.       *)

\* The most records of a dumped shard set.
MaxRecs == 2
\* The shard count of the dumped shard set.
OrigShards == 4
\* The bytes that may overwrite one byte of a dump: "X".
Overwrite == {88}

\* Records of any bytes: ("->", "\n"), ("", "") and ("\n+", "1").
LoadRecords == {<<<<45, 62>>, <<10>>>>, <<<<>>, <<>>>>, <<<<10, 43>>, <<49>>>>}

SeqsUpTo(S, n) == UNION {[1..k -> S] : k \in 0..n}

\* The shard set b opened as rd: whether it could be built, its records in
\* the order of the Iterator, and its dump.
DumpedOf(b, rd) ==
    [err |-> b.err, recs |-> IterateFrom(rd, ReaderIter(rd)), out |-> DumpContext(rd).out]
DumpedFrom(b) == DumpedOf(b, NewReader(b.fs).rdr)

\* The shard set built from src, opened and dumped.
Dumped(src) == DumpedFrom(Built(src, OrigShards))

\* A dump as it is, cut after its first at bytes, or with its byte at overwritten.
Damages(out) ==
    {[kind |-> "none", at |-> 0, bytes |-> out]}
        \cup {[kind |-> "cut", at |-> c, bytes |-> SubSeq(out, 1, c)] : c \in 0..(Len(out) - 1)}
        \cup {[kind |-> "byte", at |-> q, bytes |-> [out EXCEPT ![q] = b]] :
                  q \in 1..Len(out), b \in Overwrite}

\* The streams given to Load: the dump dm, damaged or not, with the records
\* dumped.
StreamsOf(dm) ==
    IF dm.err # NoErr THEN {}
    ELSE {[recs |-> dm.recs, d |-> d] : d \in Damages(dm.out)}

InitLoad ==
    /\ \E src \in SeqsUpTo(LoadRecords, MaxRecs) :
          \E x \in StreamsOf(Dumped(src)) :
              /\ stream = x.d.bytes
              /\ orig = [recs |-> x.recs, shards |-> OrigShards,
                         damage |-> x.d.kind, at |-> x.d.at]
    /\ fs = EmptyDir
    /\ w = NoWriter
    /\ wstate = "none"
    /\ nshards = 0
    /\ hist = <<>>
    /\ r = NoResult
    /\ rstate = "none"
    /\ got = NoGet
    /\ it = NoIter
    /\ itstate = "none"
    /\ seen = <<>>
    /\ made = NoNew
    /\ cl = NoClose
    /\ ld = NoLoad
    /\ it2 = NoIter
    /\ itstate2 = "none"
    /\ seen2 = <<>>

\* Writer.LoadContext on a new Writer; the context of a whole dump may be
\* cancelled before any poll.
DoLoad ==
    /\ wstate = "open"
    /\ ~ld.called
    /\ hist = <<>>
    /\ \E cancelAt \in 0..(Len(orig.recs) + 1) :
          /\ orig.damage # "none" => cancelAt = 0
          /\ LET c == LoadContext(w, fs, stream, cancelAt)
             IN  /\ w' = c.m
                 /\ fs' = c.fs
                 /\ hist' = c.puts
                 /\ ld' = [called |-> TRUE, cancelAt |-> cancelAt, err |-> c.err,
                           nput |-> Len(c.puts)]
    /\ UNCHANGED <<wstate, nshards, r, rstate, got, it, itstate, seen,
                   made, cl, stream, orig, it2, itstate2, seen2>>

NextLoad ==
    \/ DoNewWriter
    \/ DoLoad
    \/ DoWriterClose
    \/ DoNewReader

SpecLoad == InitLoad /\ [][NextLoad]_vars

\* The smallest power of two that is at least n.
IsPow2(c) == \E e \in 0..30 : c = Pow2(e)
SmallestPow2(c, n) == IsPow2(c) /\ c >= n /\ \A d \in 1..(c - 1) : IsPow2(d) => d < n

\* A Writer just made by a NewWriter call that names its n.
JustMade == made.called /\ made.err = NoErr /\ wstate = "open" /\ hist = <<>>
FilesOfWriter == {w.ws[i].fileName : i \in 1..Len(w.ws)}

\* C11: NewWriter with n > 0 makes a Writer that does not grow, of the
\* smallest power of two >= n shards, each with its new file, and with
\* expC = 32 - log2 of that count.
C11_FixedShardCount ==
    (JustMade /\ made.n > 0) =>
        /\ ~w.canGrow
        /\ SmallestPow2(Len(w.ws), made.n)
        /\ Pow2(32 - w.expC) = Len(w.ws)
        /\ Cardinality(FilesOfWriter) = Len(w.ws)
        /\ DOMAIN fs = FilesOfWriter
        /\ made.n = 3 => Len(w.ws) = 4
        /\ made.n = 4 => Len(w.ws) = 4
        /\ made.n = 1 => Len(w.ws) = 1

\* NewWriter(dir, 3) made a fixed Writer of 4 shards.
C11_Witness ==
    JustMade /\ made.n = 3 /\ Len(w.ws) = 4 /\ w.expC = 30 /\ ~w.canGrow

C17_CloseIdempotent ==
    [][/\ cl'.wn = cl.wn + 1 =>
            cl'.werr = NoErr /\ w.ws = <<>> /\ w' = w /\ fs' = fs
       /\ wstate' = "closed" => w'.ws = <<>>
       /\ cl'.rn = cl.rn + 1 =>
            /\ cl'.rerr = NoErr
            /\ r'.rdr.rs = <<>>
            /\ fs' = fs
            /\ rstate = "closed" => (r.rdr.rs = <<>> /\ r' = r)]_vars

\* A Writer that held several shards with a record was closed twice more, and
\* its Reader was closed twice.
C17_Witness ==
    /\ wstate = "closed" /\ nshards > 1 /\ Len(hist) > 0
    /\ cl.wn = 2 /\ cl.rn = 2 /\ rstate = "closed"

\* The files NewWriter(dir, made.n) names, in shard order.
NamesOfMade == NewWriter(EmptyDir, made.n).m.ws

\* C18: NewWriter failing at a shard returns no Writer, has closed the
\* build-handle of every shard before it, and NewReader on the directory
\* left behind fails.
C18_PartialNewWriterFails ==
    (made.called /\ made.failAt >= 0) =>
        /\ made.err # NoErr
        /\ wstate = "failed"
        /\ w.ws = <<>>
        /\ \A i \in 1..made.failAt :
              NamesOfMade[i].fileName \in DOMAIN fs /\ fs[NamesOfMade[i].fileName].final
        /\ rstate # "none" => (rstate = "failed" /\ r.err # NoErr /\ ~IsPanic(r.err))

\* The build-handle of the last of 4 shards failed: all 4 files are there, and
\* NewReader refused them.
C18_Witness ==
    /\ made.called /\ made.failAt = 3 /\ made.stage = "handle"
    /\ Cardinality(DOMAIN fs) = 4
    /\ rstate = "failed"

\* The records of shards i.. up to the first one that fails to read, and
\* whether there is such a one.
RECURSIVE UpToFirstError(_, _)
UpToFirstError(rs, i) ==
    IF i > Len(rs) THEN <<>>
    ELSE IF rs[i].errAt # 0 THEN SubSeq(rs[i].recs, 1, rs[i].errAt - 1)
    ELSE rs[i].recs \o UpToFirstError(rs, i + 1)
SomeReadFails(rs) == \E i \in 1..Len(rs) : rs[i].errAt # 0

\* C16: when Next has returned false the scan stopped at the end of the last
\* shard or at the first read error, in whichever shard, and Err returns that
\* error.
C16_ErrorStopsAndSurfaces ==
    (rstate = "open" /\ itstate = "done") =>
        /\ seen = UpToFirstError(r.rdr.rs, 1)
        /\ SomeReadFails(r.rdr.rs) = (IteratorErr(it) # NoErr)

\* What each shard yields before it fails to read, shard after shard: the
\* sequence of an Iterator that runs alone.
RECURSIVE ReadableMajor(_, _)
ReadableMajor(rs, i) ==
    IF i > Len(rs) THEN <<>>
    ELSE SubSeq(rs[i].recs, 1, IF rs[i].errAt = 0 THEN Len(rs[i].recs) ELSE rs[i].errAt - 1)
             \o ReadableMajor(rs, i + 1)

\* C20: Iter returns a new cursor at the start of shard 0; whatever the
\* interleaving, each Iterator yields a prefix of the sequence it yields alone
\* and all of it when its Next returns false; a step of one changes neither
\* the other nor the Reader.
C20_IteratorsIndependent ==
    [][/\ (itstate = "none" /\ itstate' = "active") =>
            it' = [i |-> 0, pos |-> 0, err |-> NoErr]
       /\ (itstate2 = "none" /\ itstate2' = "active") =>
            it2' = [i |-> 0, pos |-> 0, err |-> NoErr]
       /\ itstate' # "none" =>
            /\ IsPrefix(seen', ReadableMajor(r'.rdr.rs, 1))
            /\ itstate' = "done" => seen' = ReadableMajor(r'.rdr.rs, 1)
       /\ itstate2' # "none" =>
            /\ IsPrefix(seen2', ReadableMajor(r'.rdr.rs, 1))
            /\ itstate2' = "done" => seen2' = ReadableMajor(r'.rdr.rs, 1)
       /\ <<it, itstate, seen>>' # <<it, itstate, seen>> =>
            <<it2, itstate2, seen2, r, fs>>' = <<it2, itstate2, seen2, r, fs>>
       /\ <<it2, itstate2, seen2>>' # <<it2, itstate2, seen2>> =>
            <<it, itstate, seen, r, fs>>' = <<it, itstate, seen, r, fs>>]_vars

\* Two Iterators over shards of three records finished, the second one having
\* started when the first had yielded a record and finishing first.
C20_Witness ==
    /\ itstate = "active" /\ itstate2 = "done"
    /\ Len(seen2) >= 3
    /\ seen # <<>> /\ seen # seen2

\* The length of the canonical form of the first k records of recs, of the
\* header of a record, and the positions in a dump where a record ends.
DumpLen(recs, k) == Len(DumpRecords(SubSeq(recs, 1, k), 1))
HeaderLen(rec) == Len(Plus \o Decimal(Len(rec[1])) \o Comma \o Decimal(Len(rec[2])) \o Colon)
Boundaries(recs) == {DumpLen(recs, k) : k \in 0..Len(recs)}

\* The records whose "->" or terminating newline is at position q of the dump.
SeparatorOrEndAt(recs, q) ==
    {k \in 1..Len(recs) :
        LET sep == DumpLen(recs, k - 1) + HeaderLen(recs[k]) + Len(recs[k][1])
        IN  q \in {sep + 1, sep + 2, DumpLen(recs, k)}}

\* The Put calls made were for the first records of the dump, in its order,
\* and fewer than k of them.
PutsAreFirst(k) ==
    /\ Len(hist) < k
    /\ \A i \in 1..Len(hist) :
          hist[i].key = orig.recs[i][1] /\ hist[i].val = orig.recs[i][2]

\* The records of every file of the directory.
RECURSIVE FileRecs(_, _)
FileRecs(names, i) ==
    IF i > Len(names) THEN <<>> ELSE fs[names[i]].recs \o FileRecs(names, i + 1)
AllFileRecs == FileRecs(SortNames(DOMAIN fs), 1)

\* C13: a whole dump loaded without an error into a new Writer, closed and
\* reopened: the Iterator yields the pairs of the dumped shard set, each as
\* often as there.
C13_DumpLoadRoundTrip ==
    (ld.called /\ ld.err = NoErr /\ ld.cancelAt = 0 /\ orig.damage = "none"
        /\ wstate = "closed" /\ rstate # "none") =>
        /\ rstate = "open"
        /\ SameBag(IterateFrom(r.rdr, ReaderIter(r.rdr)), orig.recs)

\* Two records of 4 shards, one of them ("->", "\n"), came back out of another
\* number of shards.
C13_Witness ==
    /\ ld.called /\ ld.err = NoErr /\ orig.damage = "none"
    /\ rstate = "open"
    /\ Len(r.rdr.rs) # orig.shards
    /\ Len(orig.recs) = 2
    /\ \E i \in 1..2 : orig.recs[i] = <<<<45, 62>>, <<10>>>>
    /\ Len(IterateFrom(r.rdr, ReaderIter(r.rdr))) = 2

\* C14: Load of a dump cut off inside a record returns an error.
C14_TruncationIsAnError ==
    (ld.called /\ orig.damage = "cut" /\ orig.at \notin Boundaries(orig.recs)) =>
        ld.err # NoErr

\* C15: Load of a dump whose k-th record has another byte in its "->" or in
\* place of its newline puts neither that record nor a later one, and fails
\* with the format error unless a Put before failed.
C15_BadSeparatorOrTerminator ==
    (ld.called /\ orig.damage = "byte") =>
        \A k \in SeparatorOrEndAt(orig.recs, orig.at) :
            /\ ld.err # NoErr
            /\ PutsAreFirst(k)
            /\ NoPutFailed =>
                  /\ ld.err \in {<<"wanted ->">>, <<"wanted \\n">>}
                  /\ Len(hist) = k - 1

\* The newline of the second record was overwritten: the first record was
\* put, the second was not.
C15_Witness ==
    /\ ld.called /\ orig.damage = "byte"
    /\ Len(orig.recs) = 2 /\ orig.at = DumpLen(orig.recs, 2)
    /\ ld.err = <<"wanted \\n">>
    /\ Len(hist) = 1 /\ NoPutFailed
    /\ AllFileRecs = <<orig.recs[1]>>

\* C19: LoadContext whose context is cancelled before its k-th poll puts the
\* records before the k-th and no other, and unless one of these Puts failed
\* it returns the cancellation error with those records in the Writer's
\* files.
C19_CancelBetweenRecords ==
    (ld.called /\ ld.cancelAt >= 1) =>
        /\ ld.err # NoErr
        /\ PutsAreFirst(ld.cancelAt)
        /\ NoPutFailed =>
              /\ ld.err = Canceled
              /\ Len(hist) = ld.cancelAt - 1
              /\ SameBag(AllFileRecs, SubSeq(orig.recs, 1, ld.cancelAt - 1))

\* The context was cancelled after the first of two records: it is in the
\* Writer, the second is not.
C19_Witness ==
    /\ ld.called /\ ld.cancelAt = 2 /\ Len(orig.recs) = 2
    /\ ld.err = Canceled
    /\ Len(hist) = 1
    /\ AllFileRecs = <<orig.recs[1]>>

\* A step that is a Put call, and what it was: [key, val, err, nest].
PutStep == wstate = "open" /\ Len(hist') = Len(hist) + 1
ThePut == hist'[Len(hist')]
GrowthDone == ThePut.err = NoErr /\ ThePut.nest >= 1

\* C21: an open Writer has 2^(32-expC) build-handles; a Put that grew doubles
\* them, lowers expC by one, leaves growth enabled and the files in the
\* directory; any other Put leaves the count, expC and canGrow as they were.
C21_ShardCountMatchesExpC ==
    [][/\ wstate' = "open" => Len(w'.ws) = Pow2(32 - w'.expC)
       /\ PutStep =>
             IF GrowthDone
             THEN /\ Len(w'.ws) = 2 * Len(w.ws)
                  /\ w'.expC = w.expC - 1
                  /\ w'.canGrow
                  /\ FilesOfWriter' \subseteq DOMAIN fs'
             ELSE /\ Len(w'.ws) = Len(w.ws)
                  /\ w'.expC = w.expC
                  /\ w'.canGrow = w.canGrow]_vars

\* A Writer that grew from 2 to 4 shards.
C21_Witness ==
    /\ wstate = "open"
    /\ Len(w.ws) = 4 /\ w.expC = 30
    /\ \E i \in 1..Len(hist) : hist[i].nest = 1 /\ hist[i].err = NoErr

\* C22: the shard a key routes to is below the number of shard handles, for
\* every open Writer and every Reader NewReader returned, and no Get faults.
C22_RoutingInRange ==
    /\ wstate = "open" =>
          \A key \in Keys : bucket(w.bucketHash, key, w.expC) < Len(w.ws)
    /\ rstate = "open" =>
          \A key \in Keys : bucket(r.rdr.bucketHash, key, r.rdr.expC) < Len(r.rdr.rs)
    /\ got.called => ~IsPanic(got.err)

----------------------------------------------------------------------------
(* Puts of a Writer one of whose shard files later fails to read at one of *)
(* its records.                                                            *)

\* NewWriter with an n that enables growth.
DoNewWriterGrowing ==
    /\ wstate = "none"
    /\ \E n \in {x \in NValues : x <= 0} :
        LET c == NewWriter(fs, n)
        IN  /\ w' = c.m
            /\ fs' = c.fs
    /\ wstate' = "open"
    /\ UNCHANGED <<nshards, hist, r, rstate, got, it, itstate, seen, aux>>

\* The most Put calls of one run with read faults.
MaxGrowPuts == 2

\* Writer.Put, within the put budget of a run with read faults.
DoPutGrow ==
    /\ wstate = "open"
    /\ Len(hist) < MaxGrowPuts
    /\ \E key \in Keys, val \in Vals :
        LET p == Put(w, fs, key, val)
        IN  /\ w' = p.m
            /\ fs' = p.fs
            /\ hist' = Append(hist, [key |-> key, val |-> val, err |-> p.err, nest |-> p.nest])
    /\ UNCHANGED <<wstate, nshards, r, rstate, got, it, itstate, seen, aux>>

\* A record of a file of the open Writer will fail to read.
DoReadFault ==
    /\ wstate = "open"
    /\ Len(hist) < MaxGrowPuts
    /\ \A nm \in DOMAIN fs : fs[nm].errAt = 0
    /\ \E i \in 1..Len(w.ws) : \E e \in 1..MaxGrowPuts :
          /\ w.ws[i].fileName \in DOMAIN fs
          /\ e <= Len(fs[w.ws[i].fileName].recs)
          /\ fs' = [fs EXCEPT ![w.ws[i].fileName].errAt = e]
    /\ UNCHANGED <<w, wstate, nshards, hist, r, rstate, got, it, itstate, seen, aux>>

NextGrow ==
    \/ DoNewWriterGrowing
    \/ DoPutGrow
    \/ DoReadFault

SpecGrow == Init /\ [][NextGrow]_vars

\* The records of the files of the build-handles ws in the directory dir,
\* shard by shard.
RECURSIVE HandleRecs(_, _, _)
HandleRecs(dir, ws, i) ==
    IF i > Len(ws) THEN <<>>
    ELSE (IF ws[i].fileName \in DOMAIN dir THEN dir[ws[i].fileName].recs ELSE <<>>)
             \o HandleRecs(dir, ws, i + 1)

\* C23: a Put removes files of the old shard set only when it returns nil with
\* the record put and every record of the old set in the new Writer's files;
\* a Put that returns an error leaves every old file with its records.
C23_OldFilesOutliveGrowth ==
    [][PutStep =>
          /\ (\E nm \in FilesOfWriter : nm \notin DOMAIN fs') =>
                /\ ThePut.err = NoErr
                /\ SameBag(HandleRecs(fs', w'.ws, 1),
                           HandleRecs(fs, w.ws, 1) \o <<<<ThePut.key, ThePut.val>>>>)
          /\ ThePut.err # NoErr =>
                \A nm \in FilesOfWriter :
                    nm \in DOMAIN fs' /\ fs'[nm].recs = fs[nm].recs]_vars

----------------------------------------------------------------------------
(* Puts of records of several sizes, so that a shard holds more than one   *)
(* record before it is full.                                               *)

\* Writer.Put of a key with an empty value.
DoPutShort ==
    /\ wstate = "open"
    /\ Len(hist) < MaxPuts
    /\ \E key \in Keys :
        LET p == Put(w, fs, key, <<>>)
        IN  /\ w' = p.m
            /\ fs' = p.fs
            /\ hist' = Append(hist, [key |-> key, val |-> <<>>, err |-> p.err, nest |-> p.nest])
    /\ UNCHANGED <<wstate, nshards, r, rstate, got, it, itstate, seen, aux>>

\* Writer.Put of a key with a value of one byte.
DoPutByte ==
    /\ wstate = "open"
    /\ Len(hist) < MaxPuts
    /\ \E key \in Keys, val \in {v \in Vals : Len(v) = 1} :
        LET p == Put(w, fs, key, val)
        IN  /\ w' = p.m
            /\ fs' = p.fs
            /\ hist' = Append(hist, [key |-> key, val |-> val, err |-> p.err, nest |-> p.nest])
    /\ UNCHANGED <<wstate, nshards, r, rstate, got, it, itstate, seen, aux>>

NextOrder ==
    \/ DoNewWriterGrowing
    \/ DoPutByte
    \/ DoPutShort

SpecOrder == Init /\ [][NextOrder]_vars

\* The records of recs from the k-th on that the Writer m routes to shard b.
RECURSIVE RoutedTo(_, _, _, _)
RoutedTo(recs, k, m, b) ==
    IF k > Len(recs) THEN <<>>
    ELSE (IF bucket(m.bucketHash, recs[k][1], m.expC) = b THEN <<recs[k]>> ELSE <<>>)
             \o RoutedTo(recs, k + 1, m, b)

\* The records of the file of build-handle h.
RecsOf(dir, h) == IF h.fileName \in DOMAIN dir THEN dir[h.fileName].recs ELSE <<>>

\* C24: a growth that does not nest completes, so the old set was closed and
\* read as it was; each shard of the new Writer then holds, in this order, the
\* record whose Put grew (if routed there) and the old records routed there
\* in the order of the old shards, shard 0 first.
C24_GrowthStepOrder ==
    [][PutStep =>
          /\ ThePut.nest = 1 => ThePut.err = NoErr
          /\ GrowthDone =>
                \A j \in 1..Len(w'.ws) :
                    RecsOf(fs', w'.ws[j]) =
                        RoutedTo(<<<<ThePut.key, ThePut.val>>>> \o HandleRecs(fs, w.ws, 1),
                                 1, w', j - 1)]_vars

\* The record put last came first in its new shard, before a record put
\* earlier, and another old record went to another shard.
C24_Witness ==
    /\ wstate = "open" /\ Len(hist) = 3
    /\ Last(hist).nest = 1 /\ Last(hist).err = NoErr
    /\ \E j, k \in 1..Len(w.ws) :
          /\ j # k
          /\ Len(RecsOf(fs, w.ws[j])) = 2
          /\ RecsOf(fs, w.ws[j])[1] = <<Last(hist).key, Last(hist).val>>
          /\ RecsOf(fs, w.ws[j])[2] # RecsOf(fs, w.ws[j])[1]
          /\ RecsOf(fs, w.ws[k]) # <<>>

\* C28: after a growth every record of old shard i is in new shard 2i or
\* 2i+1, as often as it was in shard i at least, and in no other shard.
C28_GrowthSplitsShards ==
    [][(PutStep /\ GrowthDone) =>
          \A i \in 1..Len(w.ws) :
              \A k \in 1..Len(RecsOf(fs, w.ws[i])) :
                  LET rec == RecsOf(fs, w.ws[i])[k]
                  IN  /\ Count(RecsOf(fs', w'.ws[2 * i - 1]) \o RecsOf(fs', w'.ws[2 * i]), rec)
                            >= Count(RecsOf(fs, w.ws[i]), rec)
                      /\ \A j \in 1..Len(w'.ws) \ {2 * i - 1, 2 * i} :
                            Count(RecsOf(fs', w'.ws[j]), rec) = 0]_vars

\* A Writer grew from 2 to 4 shards, and records of old shard 1 are in new
\* shard 2 or 3.
C28_Witness ==
    /\ wstate = "open" /\ Len(w.ws) = 4 /\ Len(hist) >= 2
    /\ Last(hist).nest = 1 /\ Last(hist).err = NoErr
    /\ RecsOf(fs, w.ws[3]) \o RecsOf(fs, w.ws[4]) # <<>>
    /\ \E i \in 1..(Len(hist) - 1) :
          bucket(w.bucketHash, hist[i].key, w.expC) >= 2

----------------------------------------------------------------------------
(* Writer.Close when the engine's Close of some build-handles fails (the   *)
(* index cannot be written): such a file is left without its index.        *)

\* The most build-handles whose engine Close fails in one Writer.Close.
MaxCloseFails == 2

DoWriterCloseFaulty ==
    /\ wstate = "open"
    /\ \E fails \in {f \in SUBSET (1..Len(w.ws)) : Cardinality(f) <= MaxCloseFails} :
        LET c == WriterCloseFaulty(w, fs, fails)
        IN  /\ w' = c.m
            /\ fs' = c.fs
            /\ cl' = [cl EXCEPT !.wfail = fails, !.cerr = c.err]
    /\ nshards' = Len(w.ws)
    /\ wstate' = "closed"
    /\ UNCHANGED <<hist, r, rstate, got, it, itstate, seen,
                   made, stream, orig, ld, it2, itstate2, seen2>>

NextClose ==
    \/ DoNewWriter
    \/ DoPutFew
    \/ DoWriterCloseFaulty
    \/ DoNewReader

SpecClose == Init /\ [][NextClose]_vars

\* C25: Writer.Close closes every build-handle, also after the close of an
\* earlier one failed, and returns an error when the close of any failed.
C25_CloseReportsHandleFailure ==
    [][(wstate = "open" /\ wstate' = "closed") =>
          /\ w'.ws = <<>>
          /\ \A i \in 1..Len(w.ws) :
                i \notin cl'.wfail => fs'[w.ws[i].fileName].final
          /\ cl'.wfail # {} => cl'.cerr # NoErr]_vars

\* The half of C25 the code keeps: every build-handle is closed, whichever
\* closes failed, and only the files of the failed ones stay as they were.
C25_EveryHandleAttempted ==
    [][(wstate = "open" /\ wstate' = "closed") =>
          /\ w'.ws = <<>>
          /\ \A i \in 1..Len(w.ws) :
                LET nm == w.ws[i].fileName
                IN  fs'[nm].final <=> (i \notin cl'.wfail \/ fs[nm].final)]_vars

\* A Writer.Close in which the close of a later handle than a failed one
\* succeeded.
C25_FailedThenClosed ==
    /\ wstate = "closed"
    /\ \E i \in cl.wfail : \E j \in 1..nshards : j > i /\ j \notin cl.wfail

\* The bytes of a name between its last comma and its suffix.
IndexDigits(nm) ==
    LET at == CHOOSE k \in 1..Len(nm) :
                  nm[k] = 44 /\ \A j \in (k + 1)..Len(nm) : nm[j] # 44
    IN  SubSeq(nm, at + 1, Len(nm) - Len(Suffix))

\* C26: a Writer just made with N shards has exactly N files, the file of
\* shard i named with version 1, N in decimal and i in log2(N) + 1 binary
\* digits; the names differ, and each parses, as NewReader parses it, to
\* version 1, N and i.
C26_FileNamesRoundTrip ==
    JustMade =>
        LET N == Len(w.ws)
        IN  /\ DOMAIN fs = FilesOfWriter
            /\ Cardinality(FilesOfWriter) = N
            /\ \A i \in 0..(N - 1) :
                  LET nm == w.ws[i + 1].fileName
                      dg == IndexDigits(nm)
                  IN  /\ ParseFileName(nm) = [ok |-> TRUE, v |-> 1, u1 |-> N, u2 |-> i]
                      /\ HasPrefix(nm, PrefixV \o <<49>> \o Dash \o Decimal(N) \o Comma)
                      /\ HasSuffix(nm, Suffix)
                      /\ Pow2(Len(dg) - 1) = N
                      /\ \A k \in 1..Len(dg) : dg[k] \in {48, 49}

\* A Writer of 4 shards made for n = 3: shard 2 is "mcdb-v1-4,010.cdb".
C26_Witness ==
    /\ JustMade /\ made.n = 3 /\ Len(w.ws) = 4
    /\ w.ws[3].fileName =
          <<109, 99, 100, 98, 45, 118, 49, 45, 52, 44, 48, 49, 48, 46, 99, 100, 98>>

----------------------------------------------------------------------------
(* NewReader on a path that is one file of a Writer's directory (closed or *)
(* still being built), or that does not exist.                             *)

\* The most Put calls before a single file is opened.
MaxFilePuts == 2

\* Writer.Put of a key with a value of 0, 1 or 2 bytes.
DoPutFile ==
    /\ wstate = "open"
    /\ Len(hist) < MaxFilePuts
    /\ \E key \in Keys, val \in Vals \cup {<<>>} :
        LET p == Put(w, fs, key, val)
        IN  /\ w' = p.m
            /\ fs' = p.fs
            /\ hist' = Append(hist, [key |-> key, val |-> val, err |-> p.err, nest |-> p.nest])
    /\ UNCHANGED <<wstate, nshards, r, rstate, got, it, itstate, seen, aux>>

DoNewReaderFile ==
    /\ wstate \in {"open", "closed"}
    /\ rstate = "none"
    /\ \E nm \in DOMAIN fs \cup {Malformed} : r' = NewReaderFile(fs, nm)
    /\ rstate' = IF r'.err = NoErr THEN "open" ELSE "failed"
    /\ UNCHANGED <<fs, w, wstate, nshards, hist, got, it, itstate, seen, aux>>

NextFile ==
    \/ DoNewWriter
    \/ DoPutFile
    \/ DoWriterClose
    \/ DoNewReaderFile
    \/ DoGet
    \/ DoIter
    \/ DoNext

SpecFile == Init /\ [][NextFile]_vars

\* A Reader made of a single file is open.
SingleFile == rstate = "open" /\ r.rdr.bucketHash = "unset"

\* C27: a Reader made of a single file has one shard and expC = 32; every key
\* routes to shard 0; Get never panics and returns the first value the file
\* has for the key; the Iterator never panics and yields the file's records in
\* order, all of them when Next has returned false.
C27_SingleFileFallback ==
    SingleFile =>
        /\ Len(r.rdr.rs) = 1
        /\ r.rdr.expC = 32
        /\ \A key \in Keys : bucket(r.rdr.bucketHash, key, r.rdr.expC) = 0
        /\ got.called =>
              LET recs == fs[r.rdr.rs[1].name].recs
                  at   == FirstMatch(recs, got.key, 1)
              IN  /\ got.err = NoErr
                  /\ got.found <=> at # 0
                  /\ got.found => got.val = recs[at][2]
        /\ itstate # "none" =>
              LET recs == fs[r.rdr.rs[1].name].recs
              IN  /\ it.i = 0 /\ it.err = NoErr
                  /\ Len(seen) <= Len(recs)
                  /\ seen = SubSeq(recs, 1, Len(seen))
                  /\ itstate = "done" => seen = recs

\* A single file of two records, in which Get found a key that the routing
\* hash would send to shard 3 of a set of 4, was then read to its end.
C27_Witness ==
    /\ SingleFile
    /\ got.called /\ got.found /\ got.key = <<200, 97>>
    /\ itstate = "done" /\ Len(seen) = 2

============================================================================
